---- MODULE Spec2Model ----
(***************************************************************************)
(* Model of three pieces of the marketplace storefront:                    *)
(*   - PresetPackCard's audio preview (React state, useCallback closures,  *)
(*     the useEffect cleanup and the audio elements' listeners),           *)
(*   - the useItemActions hook (cart / wishlist / delete handlers),        *)
(*   - the catalog GET route (filter-clause construction and lookup).      *)
(* Each piece has its own specification; the variables of the other pieces *)
(* stay at their initial values under it.                                  *)
(***************************************************************************)
EXTENDS Integers, Sequences, FiniteSets, TLC

VARIABLES
    \* ---- PresetPackCard ----
    activePreset,   \* useState<string | null>      (PresetPackCard.tsx:47)
    audio,          \* useState<HTMLAudioElement | null>, 0 is null (:48)
    isPlaying,      \* useState(false)               (:49)
    mounted,        \* the component instance is mounted
    audios,         \* every element made by new Audio(...), in creation order
    effAudio,       \* the `audio` captured by the cleanupAudio that the
                    \* current effect returned as its cleanup (:62-64)
    last,           \* the last event handled by the card (history)
    \* ---- useItemActions ----
    server,         \* the server's CART and WISHLIST collections
    local,          \* state.cart: the client store's copy of both
    ops,            \* the handler invocations, one record each
    \* ---- catalog GET route ----
    request,        \* the request's four query parameters
    getPc,          \* where the handler is: "start", "querying", "done"
    whereClause,    \* the where-predicate handed to findMany
    lookup,         \* findMany: "none", "pending", "resolved", "rejected"
    responses       \* the responses produced for the request

cardVars == <<activePreset, audio, isPlaying, mounted, audios, effAudio, last>>
actionVars == <<server, local, ops>>
routeVars == <<request, getPc, whereClause, lookup, responses>>

vars == <<cardVars, actionVars, routeVars>>

\* What an action of one piece leaves alone.
notCard == <<actionVars, routeVars>>
notActions == <<cardVars, routeVars>>
notRoute == <<cardVars, actionVars>>

(***************************************************************************)
(*                          PresetPackCard                                 *)
(***************************************************************************)

\* Bound on the number of new Audio(...) calls explored.
MaxAudio == 3

\* The presets of the pack; p3 has no soundPreviewUrl.
Presets == {"p1", "p2", "p3"}
HasUrl(p) == p \in {"p1", "p2"}
NoPreset == "null"

Created == 1..Len(audios)

\* audio.pause(): a playing element becomes paused; the play() promises
\* still pending on it stay pending until they are rejected.
Pause(auds, r) ==
    IF r = 0 THEN auds
    ELSE [auds EXCEPT ![r].status = IF @ = "playing" THEN "paused" ELSE @]

\* The state cells as a record, and the three setters of cleanupAudio.
CardState == [audio |-> audio, activePreset |-> activePreset, isPlaying |-> isPlaying]
IdleState == [audio |-> 0, activePreset |-> NoPreset, isPlaying |-> FALSE]

\* cleanupAudio as a closure over `cap`, the value of `audio` in the render
\* that created it: with a null capture it does nothing at all.
CleanupPausesNothing(cap, auds) == auds
CleanupPauses(cap, auds) == Pause(auds, cap)
CleanupAudios(cap, auds) == IF cap # 0 THEN CleanupPauses(cap, auds) ELSE auds
CleanupState(cap, st) == IF cap # 0 THEN IdleState ELSE st

\* All state updates of one handler are batched; the component re-renders
\* with the last value set for each cell.  Nothing is applied once the
\* component is unmounted.
Commit(st) ==
    /\ audio' = IF mounted THEN st.audio ELSE audio
    /\ activePreset' = IF mounted THEN st.activePreset ELSE activePreset
    /\ isPlaying' = IF mounted THEN st.isPlaying ELSE isPlaying

\* The effect depends on cleanupAudio, whose identity follows `audio`: the
\* card is settled when the registered cleanup is the one of this render.
Settled == effAudio = audio

CardInit ==
    /\ activePreset = NoPreset
    /\ audio = 0
    /\ isPlaying = FALSE
    /\ mounted = TRUE
    /\ audios = <<>>
    /\ effAudio = 0
    /\ last = [op |-> "init", preset |-> NoPreset, res |-> 0,
               prev |-> IdleState, notice |-> "none"]

Event(op, p, r, notice) ==
    [op |-> op, preset |-> p, res |-> r, prev |-> CardState, notice |-> notice]

\* togglePlay for a preset without a preview URL (:68-71): the notice and
\* the return come before anything else in the handler.
TogglePlayNoUrlAfterCleanup(p) ==
    /\ UNCHANGED notCard
    /\ mounted /\ Settled
    /\ ~HasUrl(p)
    /\ audios' = IF activePreset \notin {NoPreset, p}
                 THEN Pause(audios, audio) ELSE audios
    /\ Commit(IF activePreset \notin {NoPreset, p} /\ audio # 0
              THEN IdleState ELSE CardState)
    /\ last' = Event("togglePlay", p, 0, "info:No preview available for this preset")
    /\ UNCHANGED <<mounted, effAudio>>
TogglePlayNoUrl(p) ==
    /\ UNCHANGED notCard
    /\ mounted /\ Settled
    /\ ~HasUrl(p)
    /\ last' = Event("togglePlay", p, 0, "info:No preview available for this preset")
    /\ UNCHANGED <<activePreset, audio, isPlaying, mounted, audios, effAudio>>

\* Whether togglePlay calls cleanupAudio first (:73-75).
SwitchCleansUp(p) == activePreset # NoPreset /\ activePreset # p
\* Whether togglePlay makes a new element (:77).
NeedsNewAudioForSamePreset(p) == audio = 0 \/ activePreset = p
NeedsNewAudio(p) == audio = 0 \/ activePreset # p

\* togglePlay making a new element (:73-93).  cleanupAudio here, and in the
\* listeners and the catch registered here, is this render's closure: it
\* captured this render's `audio`.
TogglePlayNew(p) ==
    /\ UNCHANGED notCard
    /\ mounted /\ Settled
    /\ HasUrl(p)
    /\ NeedsNewAudio(p)
    /\ Len(audios) < MaxAudio
    /\ LET cap == audio
           a1 == IF SwitchCleansUp(p) THEN CleanupAudios(cap, audios) ELSE audios
           n == Len(audios) + 1
           el == [preset |-> p, status |-> "playing", errCap |-> cap, plays |-> {cap}]
       IN /\ audios' = Append(a1, el)
          /\ Commit([audio |-> n, activePreset |-> p, isPlaying |-> TRUE])
          /\ last' = Event("togglePlay", p, n, "none")
    /\ UNCHANGED <<mounted, effAudio>>

\* togglePlay on the active preset (:94-105): pause, or play again.
TogglePlaySame(p) ==
    /\ UNCHANGED notCard
    /\ mounted /\ Settled
    /\ HasUrl(p)
    /\ ~NeedsNewAudio(p)
    /\ IF isPlaying
       THEN /\ audios' = Pause(audios, audio)
            /\ Commit([CardState EXCEPT !.isPlaying = FALSE])
       ELSE /\ audios' = [audios EXCEPT ![audio].status = "playing",
                                        ![audio].plays = @ \cup {audio}]
            /\ Commit([CardState EXCEPT !.isPlaying = TRUE])
    /\ last' = Event("togglePlay", p, audio, "none")
    /\ UNCHANGED <<mounted, effAudio>>

\* The effect's cleanup runs when cleanupAudio changed between two renders
\* (:62-64): the previous render's cleanupAudio is called, then this
\* render's is registered.  Its setState calls cause a further render.
FlushEffects ==
    /\ UNCHANGED notCard
    /\ mounted /\ ~Settled
    /\ audios' = CleanupAudios(effAudio, audios)
    /\ Commit(CleanupState(effAudio, CardState))
    /\ effAudio' = audio
    /\ UNCHANGED <<mounted, last>>

\* The "ended" listener (:79-82).
EndedEvent(r) ==
    /\ UNCHANGED notCard
    /\ Settled
    /\ r \in Created /\ audios[r].status = "playing"
    /\ audios' = [audios EXCEPT ![r].status = "ended", ![r].plays = {}]
    /\ Commit([CardState EXCEPT !.isPlaying = FALSE, !.activePreset = NoPreset])
    /\ last' = Event("ended", audios[r].preset, r, "none")
    /\ UNCHANGED <<mounted, effAudio>>

\* The "error" listener (:83-86) calls the cleanupAudio captured when the
\* element was made.
ErrorEvent(r) ==
    /\ UNCHANGED notCard
    /\ Settled
    /\ r \in Created /\ audios[r].status \in {"playing", "paused"}
    /\ LET cap == audios[r].errCap
           a1 == [audios EXCEPT ![r].status = "error"]
       IN /\ audios' = CleanupAudios(cap, a1)
          /\ Commit(CleanupState(cap, CardState))
    /\ last' = Event("error", audios[r].preset, r, "error:Failed to load audio")
    /\ UNCHANGED <<mounted, effAudio>>

RECURSIVE CleanupAll(_, _)
CleanupAll(caps, auds) ==
    IF caps = {} THEN auds
    ELSE LET c == CHOOSE x \in caps : TRUE
         IN CleanupAll(caps \ {c}, CleanupAudios(c, auds))

\* play() rejected (:89-92, :99-102): every promise pending on the element
\* is rejected and each catch calls the cleanupAudio it captured.
PlayRejected(r) ==
    /\ UNCHANGED notCard
    /\ Settled
    /\ r \in Created /\ audios[r].plays # {}
    /\ LET caps == audios[r].plays
           a1 == [audios EXCEPT ![r].plays = {},
                                ![r].status = IF @ = "playing" THEN "paused" ELSE @]
       IN /\ audios' = CleanupAll(caps, a1)
          /\ Commit(IF caps # {0} THEN IdleState ELSE CardState)
    /\ last' = Event("playRejected", audios[r].preset, r, "error:Failed to play audio")
    /\ UNCHANGED <<mounted, effAudio>>

\* play() fulfilled: playback has begun.
PlayFulfilled(r) ==
    /\ UNCHANGED notCard
    /\ Settled
    /\ r \in Created /\ audios[r].plays # {} /\ audios[r].status = "playing"
    /\ audios' = [audios EXCEPT ![r].plays = {}]
    /\ last' = Event("playFulfilled", audios[r].preset, r, "none")
    /\ UNCHANGED <<activePreset, audio, isPlaying, mounted, effAudio>>

\* Unmount: React calls the registered cleanup (:62-64); the component's
\* state cells are gone with it (written as their null values).
Unmount ==
    /\ UNCHANGED notCard
    /\ mounted /\ Settled
    /\ audios' = CleanupAudios(effAudio, audios)
    /\ mounted' = FALSE
    /\ audio' = 0 /\ activePreset' = NoPreset /\ isPlaying' = FALSE
    /\ effAudio' = 0
    /\ last' = Event("unmount", NoPreset, effAudio, "none")

CardNext ==
    \/ \E p \in Presets : TogglePlayNoUrl(p)
    \/ \E p \in Presets : TogglePlayNew(p)
    \/ \E p \in Presets : TogglePlaySame(p)
    \/ FlushEffects
    \/ \E r \in 1..MaxAudio : EndedEvent(r)
    \/ \E r \in 1..MaxAudio : ErrorEvent(r)
    \/ \E r \in 1..MaxAudio : PlayRejected(r)
    \/ \E r \in 1..MaxAudio : PlayFulfilled(r)
    \/ Unmount

(***************************************************************************)
(*                            useItemActions                               *)
(***************************************************************************)

\* Bound on the handler invocations explored (they may overlap).
MaxOps == 2

Items == {"x", "y"}
CartTypes == {"CART", "WISHLIST"}
ItemTypes == {"PRESET", "PACK", "REQUEST"}
NoMode == "undefined"
ContentViewModes == {NoMode, "UPLOADED", "DOWNLOADED"}
RequestViewModes == {NoMode, "PUBLIC"}

OpIds == 1..MaxOps

IdleOp ==
    [kind |-> "none", item |-> "x", from |-> "CART", itemType |-> "PRESET",
     contentViewMode |-> NoMode, requestViewMode |-> NoMode,
     pc |-> "idle", ok |-> FALSE, inCart0 |-> FALSE, calls |-> 0, fetching |-> {},
     refetched |-> [t \in CartTypes |-> 0], invalidated |-> <<>>,
     toasts |-> <<>>, pushes |-> <<>>,
     mutation |-> "none", threw |-> FALSE, log |-> <<>>]

ActionsIdle ==
    /\ server = [t \in CartTypes |-> {}]
    /\ local = [t \in CartTypes |-> {}]
    /\ ops = [i \in OpIds |-> IdleOp]

\* The client store starts in step with the server; an item is in at most
\* one of the two collections.
ActionsInit ==
    /\ server \in [CartTypes -> SUBSET Items]
    /\ server["CART"] \cap server["WISHLIST"] = {}
    /\ local = server
    /\ ops = [i \in OpIds |-> IdleOp]

\* One such start: x is in the cart and y on the wishlist.
HandlersInit ==
    /\ server = [t \in CartTypes |-> IF t = "CART" THEN {"x"} ELSE {"y"}]
    /\ local = server
    /\ ops = [i \in OpIds |-> IdleOp]

SetOp(i, op) == ops' = [ops EXCEPT ![i] = op]

\* optimisticAddToCart (cartSlice): the entry is put into local state.
OptimisticAddToCart(loc, x) == [loc EXCEPT !["CART"] = @ \cup {x}]

\* fetchCartItems(type) fulfilled (cartSlice): the local collection is
\* replaced by the server's.
FetchFulfilled(loc, srv, t) == [loc EXCEPT ![t] = srv[t]]

\* The server's handling of a successful request.
ServerAdd(srv, t, x) == [srv EXCEPT ![t] = @ \cup {x}]
ServerMoveItem(srv, from, to, x) ==
    [t \in CartTypes |->
        IF t = to THEN srv[t] \cup {x}
        ELSE IF t = from THEN srv[t] \ {x} ELSE srv[t]]
ServerRemove(srv, t, x) == [srv EXCEPT ![t] = @ \ {x}]

\* handleAddToCart up to its first await (:183-210): the optimistic insert,
\* then the addToCart request.
StartAddToCart(i, x) ==
    /\ UNCHANGED notActions
    /\ ops[i].pc = "idle"
    /\ local' = OptimisticAddToCart(local, x)
    /\ SetOp(i, [IdleOp EXCEPT !.kind = "addToCart", !.item = x,
                               !.inCart0 = (x \in server["CART"]),
                               !.pc = "request", !.calls = 1,
                               !.log = <<"optimisticAddToCart", "addToCart">>])
    /\ UNCHANGED server

\* The server answers the request of invocation i: it applies it and
\* answers ok, or answers with an error (or the transport fails).
ServerAnswers(i, ok) ==
    /\ UNCHANGED notActions
    /\ ops[i].pc = "request"
    /\ ops[i].kind \in {"addToCart", "move", "remove"}
    /\ LET op == ops[i]
       IN /\ ok => CASE op.kind = "addToCart" -> TRUE
                     [] op.kind = "move" -> op.item \in server[op.from]
                     [] op.kind = "remove" -> op.item \in server[op.from]
          /\ server' =
                IF ~ok THEN server
                ELSE CASE op.kind = "addToCart" -> ServerAdd(server, "CART", op.item)
                       [] op.kind = "move" -> ServerMoveItem(server, op.from, "CART", op.item)
                       [] op.kind = "remove" -> ServerRemove(server, op.from, op.item)
          /\ SetOp(i, [op EXCEPT !.pc = "response", !.ok = ok])
    /\ UNCHANGED local

\* The collections handleAddToCart re-fetches once the request has settled:
\* CART after success (:213) and CART in the catch (:220).
AddToCartRefetchOnlyOnSuccess(ok) == IF ok THEN {"CART"} ELSE {}
AddToCartRefetch(ok) == {"CART"}

\* handleAddToCart resumes after the request (:210-213, :218-220).
AddToCartSettles(i) ==
    /\ UNCHANGED notActions
    /\ ops[i].pc = "response" /\ ops[i].kind = "addToCart"
    /\ LET f == AddToCartRefetch(ops[i].ok)
       IN IF f # {}
          THEN SetOp(i, [ops[i] EXCEPT !.pc = "refetch", !.fetching = f,
                            !.log = Append(@, "fetchCartItems")])
          ELSE SetOp(i, [ops[i] EXCEPT !.pc = "done",
                            !.toasts = Append(@, IF ops[i].ok THEN "success" ELSE "error"),
                            !.log = Append(@, "toast")])
    /\ UNCHANGED <<server, local>>

\* handleMoveToCart up to its first await (:230-238): one moveItem request.
StartMoveToCart(i, x, from) ==
    /\ UNCHANGED notActions
    /\ ops[i].pc = "idle"
    /\ SetOp(i, [IdleOp EXCEPT !.kind = "move", !.item = x, !.from = from,
                               !.pc = "request", !.calls = 1,
                               !.log = <<"moveItem">>])
    /\ UNCHANGED <<server, local>>

\* The collections handleMoveToCart re-fetches after a successful move
\* (:241-244), both dispatched at once under Promise.all.
MoveRefetchCartOnly == {"CART"}
MoveRefetch == {"CART", "WISHLIST"}

\* handleMoveToCart resumes after the request (:238-253).
MoveSettles(i) ==
    /\ UNCHANGED notActions
    /\ ops[i].pc = "response" /\ ops[i].kind = "move"
    /\ IF ops[i].ok
       THEN SetOp(i, [ops[i] EXCEPT !.pc = "refetch", !.fetching = MoveRefetch,
                         !.log = Append(@, "fetchCartItems")])
       ELSE SetOp(i, [ops[i] EXCEPT !.pc = "done", !.toasts = Append(@, "error"),
                         !.log = Append(@, "toast")])
    /\ UNCHANGED <<server, local>>

\* One fetchCartItems(t) of invocation i settles; when it was the last one
\* awaited, the handler goes on to its toast (:215-217, :222-226, :246).
FetchSettles(i, t) ==
    /\ UNCHANGED notActions
    /\ ops[i].pc = "refetch" /\ t \in ops[i].fetching
    /\ local' = FetchFulfilled(local, server, t)
    /\ LET op == [ops[i] EXCEPT !.fetching = @ \ {t}, !.refetched[t] = @ + 1]
       IN IF op.fetching = {}
          THEN SetOp(i, [op EXCEPT !.pc = "done",
                            !.toasts = Append(@, IF op.ok THEN "success" ELSE "error"),
                            !.log = Append(@, "toast")])
          ELSE SetOp(i, op)
    /\ UNCHANGED server

\* handleRemoveItem up to its await (:256-264): one deleteCartItem request.
StartRemoveItem(i, x, type) ==
    /\ UNCHANGED notActions
    /\ ops[i].pc = "idle"
    /\ SetOp(i, [IdleOp EXCEPT !.kind = "remove", !.item = x, !.from = type,
                               !.pc = "request", !.calls = 1,
                               !.log = <<"deleteCartItem">>])
    /\ UNCHANGED <<server, local>>

\* deleteCartItem fulfilled (cartSlice): the source collection, and only
\* it, is invalidated; its local copy is read again from the server.
DeleteCartItemFulfilled(loc, srv, t) == [loc EXCEPT ![t] = srv[t]]

\* handleRemoveItem resumes after the request (:264-274): the handler itself
\* only toasts; what is refreshed is the thunk's doing.
RemoveSettles(i) ==
    /\ UNCHANGED notActions
    /\ ops[i].pc = "response" /\ ops[i].kind = "remove"
    /\ local' = IF ops[i].ok
                THEN DeleteCartItemFulfilled(local, server, ops[i].from)
                ELSE local
    /\ SetOp(i, [ops[i] EXCEPT
                     !.pc = "done",
                     !.refetched[ops[i].from] = IF ops[i].ok THEN @ + 1 ELSE @,
                     !.toasts = Append(@, IF ops[i].ok THEN "success" ELSE "error"),
                     !.log = Append(@, "toast")])
    /\ UNCHANGED server

\* The router.push calls of handleDelete itself (:279-284), made right after
\* mutate() has returned: `await` of its undefined result only yields.
HandleDeletePushes(itemType, cvm, rvm) ==
    IF itemType = "REQUEST" /\ rvm # NoMode
    THEN << <<"handler", "/requests?view=", rvm>> >>
    ELSE IF cvm # NoMode
         THEN << <<"handler", "/dashboard/", itemType>> >>
         ELSE <<>>

\* The router.push of deleteItemMutation.onSuccess (:108-110).
OnSuccessPushes(itemType, cvm) ==
    IF cvm = "UPLOADED" THEN << <<"onSuccess", "/dashboard/", itemType>> >> ELSE <<>>

\* The query keys the mutations invalidate on success: [`${itemType}s`]
\* (:102) and ["wishlist"] (:76).
ItemTypeKey(itemType) == <<itemType, "s">>
WishlistKey == <<"wishlist">>

\* handleDelete (:277-285): starts the mutation and navigates.
StartDelete(i, x, itemType, cvm, rvm) ==
    /\ UNCHANGED notActions
    /\ ops[i].pc = "idle"
    /\ SetOp(i, [IdleOp EXCEPT !.kind = "delete", !.item = x, !.itemType = itemType,
                               !.contentViewMode = cvm, !.requestViewMode = rvm,
                               !.pc = "request", !.calls = 1,
                               !.mutation = "deleteItemMutation",
                               !.log = <<"deleteItemMutation.mutate">>,
                               !.pushes = HandleDeletePushes(itemType, cvm, rvm)])
    /\ UNCHANGED <<server, local>>

\* deleteItemMutation settles (:90-114): onSuccess or onError.
DeleteSettles(i, ok) ==
    /\ UNCHANGED notActions
    /\ ops[i].pc = "request" /\ ops[i].kind = "delete"
    /\ LET op == ops[i]
       IN IF ok
          THEN SetOp(i, [op EXCEPT !.pc = "done", !.ok = TRUE,
                            !.invalidated = Append(@, ItemTypeKey(op.itemType)),
                            !.toasts = Append(@, "success"),
                            !.log = Append(@, "toast"),
                            !.pushes = @ \o OnSuccessPushes(op.itemType, op.contentViewMode)])
          ELSE SetOp(i, [op EXCEPT !.pc = "done", !.ok = FALSE,
                            !.toasts = Append(@, "error"),
                            !.log = Append(@, "toast")])
    /\ UNCHANGED <<server, local>>

\* handleAddToWishlist (:289): addToWishlistMutation.mutate().
StartAddToWishlist(i, x) ==
    /\ UNCHANGED notActions
    /\ ops[i].pc = "idle"
    /\ SetOp(i, [IdleOp EXCEPT !.kind = "addToWishlist", !.item = x,
                               !.pc = "request", !.calls = 1,
                               !.mutation = "addToWishlistMutation",
                               !.log = <<"addToWishlistMutation.mutate">>])
    /\ UNCHANGED <<server, local>>

\* addToWishlistMutation settles (:58-86): onSuccess or onError.  The
\* redux copy of the wishlist is not touched.
AddToWishlistSettles(i, ok) ==
    /\ UNCHANGED notActions
    /\ ops[i].pc = "request" /\ ops[i].kind = "addToWishlist"
    /\ server' = IF ok THEN ServerAdd(server, "WISHLIST", ops[i].item) ELSE server
    /\ SetOp(i, [ops[i] EXCEPT
                     !.pc = "done", !.ok = ok,
                     !.invalidated = IF ok THEN Append(@, WishlistKey) ELSE @,
                     !.toasts = Append(@, IF ok THEN "success" ELSE "error"),
                     !.log = Append(@, "toast")])
    /\ UNCHANGED local

\* The in-flight indicators the hook returns (:299-303): each is the
\* isPending of one useMutation object, true from that object's mutate()
\* until its request settles.
IsPending(i, m) == ops[i].mutation = m /\ ops[i].pc = "request"
IsAddingToCart(i) == IsPending(i, "addToCartMutation")
IsAddingToWishlist(i) == IsPending(i, "addToWishlistMutation")
IsMovingToCart(i) == IsPending(i, "moveItemMutation")
IsRemoving(i) == IsPending(i, "removeItemMutation")
IsDeleting(i) == IsPending(i, "deleteItemMutation")

\* state.cart.loading[itemId] (:26): set while a cartSlice thunk for the
\* item is pending.  The hook returns it as isLoading; no handler reads it.
Loading(x) ==
    \E i \in OpIds : /\ ops[i].kind \in {"addToCart", "move", "remove"}
                     /\ ops[i].item = x
                     /\ ops[i].pc \in {"request", "response"}
IsLoading(x) == Loading(x)

\* PresetPackCard.handleDelete up to its await (PresetPackCard.tsx:110-113):
\* one DELETE request, outside any try.
StartPackDelete(i, x) ==
    /\ UNCHANGED notActions
    /\ ops[i].pc = "idle"
    /\ SetOp(i, [IdleOp EXCEPT !.kind = "packDelete", !.item = x, !.itemType = "PACK",
                               !.pc = "request", !.calls = 1,
                               !.log = <<"fetch">>])
    /\ UNCHANGED <<server, local>>

PresetPacksKey == <<"presetPacks">>

\* PresetPackCard.handleDelete resumes (PresetPackCard.tsx:113-119): on a
\* response that is not ok it throws and nothing around it catches; a
\* rejected fetch propagates as well.  No notification either way.
PackDeleteSettles(i, ok) ==
    /\ UNCHANGED notActions
    /\ ops[i].pc = "request" /\ ops[i].kind = "packDelete"
    /\ IF ok
       THEN SetOp(i, [ops[i] EXCEPT !.pc = "done", !.ok = TRUE,
                         !.invalidated = Append(@, PresetPacksKey),
                         !.log = Append(@, "invalidateQueries")])
       ELSE SetOp(i, [ops[i] EXCEPT !.pc = "done", !.ok = FALSE,
                         !.threw = TRUE,
                         !.log = Append(@, "throw")])
    /\ UNCHANGED <<server, local>>

\* PresetPackCard.handleAddToCart (PresetPackCard.tsx:122-133): addToCart(...)
\* only makes the thunk, which is awaited as a plain value and never
\* dispatched: no request is sent and the success toast follows at once.
PackAddToCart(i, x) ==
    /\ UNCHANGED notActions
    /\ ops[i].pc = "idle"
    /\ SetOp(i, [IdleOp EXCEPT !.kind = "packAddToCart", !.item = x, !.itemType = "PACK",
                               !.from = "WISHLIST",
                               !.pc = "done", !.ok = TRUE, !.calls = 0,
                               !.toasts = <<"success">>,
                               !.log = <<"addToCart", "toast">>])
    /\ UNCHANGED <<server, local>>

CartNext ==
    \/ \E i \in OpIds, x \in Items : StartAddToCart(i, x)
    \/ \E i \in OpIds, x \in Items, from \in CartTypes : StartMoveToCart(i, x, from)
    \/ \E i \in OpIds, x \in Items, t \in CartTypes : StartRemoveItem(i, x, t)
    \/ \E i \in OpIds, ok \in BOOLEAN : ServerAnswers(i, ok)
    \/ \E i \in OpIds : AddToCartSettles(i)
    \/ \E i \in OpIds : MoveSettles(i)
    \/ \E i \in OpIds : RemoveSettles(i)
    \/ \E i \in OpIds, t \in CartTypes : FetchSettles(i, t)

DeleteNext ==
    \/ \E i \in OpIds, x \in Items, it \in ItemTypes,
          cvm \in ContentViewModes, rvm \in RequestViewModes :
            StartDelete(i, x, it, cvm, rvm)
    \/ \E i \in OpIds, ok \in BOOLEAN : DeleteSettles(i, ok)

\* Every handler of the hook and the card's own two, invoked on items whose
\* view modes are not set.
HandlersNext ==
    \/ \E i \in OpIds, x \in Items : StartAddToCart(i, x)
    \/ \E i \in OpIds, x \in Items, from \in CartTypes : StartMoveToCart(i, x, from)
    \/ \E i \in OpIds, x \in Items, t \in CartTypes : StartRemoveItem(i, x, t)
    \/ \E i \in OpIds, ok \in BOOLEAN : ServerAnswers(i, ok)
    \/ \E i \in OpIds : AddToCartSettles(i)
    \/ \E i \in OpIds : MoveSettles(i)
    \/ \E i \in OpIds : RemoveSettles(i)
    \/ \E i \in OpIds, t \in CartTypes : FetchSettles(i, t)
    \/ \E i \in OpIds, x \in Items : StartAddToWishlist(i, x)
    \/ \E i \in OpIds, ok \in BOOLEAN : AddToWishlistSettles(i, ok)
    \/ \E i \in OpIds, x \in Items, it \in ItemTypes : StartDelete(i, x, it, NoMode, NoMode)
    \/ \E i \in OpIds, ok \in BOOLEAN : DeleteSettles(i, ok)
    \/ \E i \in OpIds, x \in Items : StartPackDelete(i, x)
    \/ \E i \in OpIds, ok \in BOOLEAN : PackDeleteSettles(i, ok)
    \/ \E i \in OpIds, x \in Items : PackAddToCart(i, x)

(***************************************************************************)
(*                          catalog GET route                              *)
(***************************************************************************)

\* Bounds on the length of the raw searchTerm and genres parameters.
MaxTermLen == 2
MaxListLen == 3

\* A string is a sequence of characters.
RECURSIVE Strings(_, _)
Strings(alphabet, n) ==
    IF n = 0 THEN {<<>>}
    ELSE LET S == Strings(alphabet, n - 1)
         IN S \cup {Append(w, c) : w \in {v \in S : Len(v) = n - 1}, c \in alphabet}

\* searchParams.get(name): null when the parameter is absent.
Absent == [present |-> FALSE, value |-> <<>>]
Given(str) == [present |-> TRUE, value |-> str]

NoRequest == [searchTerm |-> Absent, genres |-> Absent,
              vstTypes |-> Absent, presetTypes |-> Absent]
EmptyWhere == [hasAND |-> FALSE, AND |-> <<>>]

SearchTermParams == {Absent} \cup {Given(w) : w \in Strings({" ", "a", "A"}, MaxTermLen)}
GenresParams == {Absent} \cup {Given(w) : w \in Strings({"g", "h", ","}, MaxListLen)}
VstTypesParams == {Absent, Given(<<>>), Given(<<",">>), Given(<<"s">>), Given(<<"s", ",", "t">>)}
PresetTypesParams == {Absent, Given(<<>>), Given(<<",", ",">>), Given(<<"b">>), Given(<<",", "c">>)}

\* p || "" (:7)
OrEmptyString(p) == IF p.present THEN p.value ELSE <<>>

\* String.prototype.split(",")
RECURSIVE Split(_)
Split(str) ==
    IF \A i \in 1..Len(str) : str[i] # ","
    THEN <<str>>
    ELSE LET i == CHOOSE k \in 1..Len(str) :
                    str[k] = "," /\ \A j \in 1..(k - 1) : str[j] # ","
         IN <<SubSeq(str, 1, i - 1)>> \o Split(SubSeq(str, i + 1, Len(str)))

\* Array.prototype.filter(Boolean) on strings: the empty ones go.
NonEmptyString(e) == e # <<>>
FilterBoolean(list) == SelectSeq(list, NonEmptyString)

\* p?.split(",").filter(Boolean) || [] (:8-12)
ListParam(p) == IF p.present THEN FilterBoolean(Split(p.value)) ELSE <<>>

\* String.prototype.trim()
RECURSIVE Trim(_)
Trim(str) ==
    IF str = <<>> THEN str
    ELSE IF Head(str) = " " THEN Trim(Tail(str))
    ELSE IF str[Len(str)] = " " THEN Trim(SubSeq(str, 1, Len(str) - 1))
    ELSE str

\* The four tests that decide whether a clause is pushed (:20, :30, :35, :44).
SearchTermGivenUntrimmed(searchTerm) == searchTerm # <<>>
SearchTermGiven(searchTerm) == Trim(searchTerm) # <<>>
ListGiven(list) == Len(list) > 0

\* The clauses pushed (:21-26, :31, :36-40, :45).
SearchClause(searchTerm) ==
    [field |-> "title|description", term |-> Trim(searchTerm), values |-> {}]
InClause(field, list) ==
    [field |-> field, term |-> <<>>, values |-> {list[i] : i \in 1..Len(list)}]
GenreClauseOnPresetType(genres) == InClause("presetType", genres)
GenreClause(genres) == InClause("genreId", genres)
VstClause(vstTypes) == InClause("vst.type", vstTypes)
PresetTypeClause(presetTypes) == InClause("presetType", presetTypes)

\* The where-predicate the handler builds (:15-51).
BuildWhere(req) ==
    LET searchTerm == OrEmptyString(req.searchTerm)
        genres == ListParam(req.genres)
        vstTypes == ListParam(req.vstTypes)
        presetTypes == ListParam(req.presetTypes)
        AND == (IF SearchTermGiven(searchTerm) THEN <<SearchClause(searchTerm)>> ELSE <<>>)
               \o (IF ListGiven(genres) THEN <<GenreClause(genres)>> ELSE <<>>)
               \o (IF ListGiven(vstTypes) THEN <<VstClause(vstTypes)>> ELSE <<>>)
               \o (IF ListGiven(presetTypes) THEN <<PresetTypeClause(presetTypes)>> ELSE <<>>)
    IN IF Len(AND) = 0 THEN EmptyWhere ELSE [hasAND |-> TRUE, AND |-> AND]

\* The presetUpload table: title, optional description, genre, the related
\* VST's type, preset type and creation time.
Catalog ==
    << [id |-> 1, title |-> <<"a">>, description |-> Absent,
        genreId |-> <<"g">>, vstType |-> <<"s">>, presetType |-> <<"b">>, createdAt |-> 3],
       [id |-> 2, title |-> <<"x">>, description |-> Given(<<"x", "A", "a">>),
        genreId |-> <<"h">>, vstType |-> <<"s">>, presetType |-> <<"c">>, createdAt |-> 1],
       [id |-> 3, title |-> <<"x", " ", "A">>, description |-> Absent,
        genreId |-> <<"g">>, vstType |-> <<"t">>, presetType |-> <<"b">>, createdAt |-> 4],
       [id |-> 4, title |-> <<"x">>, description |-> Given(<<>>),
        genreId |-> <<"h">>, vstType |-> <<"t">>, presetType |-> <<"c">>, createdAt |-> 2] >>

LowerChar(c) == IF c = "A" THEN "a" ELSE c
ToLower(str) == [i \in 1..Len(str) |-> LowerChar(str[i])]
Contains(str, t) == \E i \in 0..(Len(str) - Len(t)) : SubSeq(str, i + 1, i + Len(t)) = t
ContainsInsensitive(str, t) == Contains(ToLower(str), ToLower(t))

\* One clause of the predicate on one row, as the query engine evaluates
\* `contains` with mode "insensitive" and `in`.
ClauseHolds(row, c) ==
    CASE c.field = "title|description" ->
            \/ ContainsInsensitive(row.title, c.term)
            \/ row.description.present /\ ContainsInsensitive(row.description.value, c.term)
      [] c.field = "genreId" -> row.genreId \in c.values
      [] c.field = "vst.type" -> row.vstType \in c.values
      [] c.field = "presetType" -> row.presetType \in c.values

RowMatches(row, where) ==
    where.hasAND => \A k \in 1..Len(where.AND) : ClauseHolds(row, where.AND[k])

RECURSIVE ByCreatedAtDesc(_)
ByCreatedAtDesc(rows) ==
    IF rows = {} THEN <<>>
    ELSE LET newest == CHOOSE r \in rows : \A q \in rows : r.createdAt >= q.createdAt
         IN <<newest>> \o ByCreatedAtDesc(rows \ {newest})

\* prisma.presetUpload.findMany({where, orderBy: {createdAt: "desc"}}) (:53-68)
FindMany(where) ==
    ByCreatedAtDesc({Catalog[i] : i \in {k \in 1..Len(Catalog) : RowMatches(Catalog[k], where)}})

\* The two responses (:70, :73-76).
CatchResponseWithRows(rows) == [status |-> 500, error |-> "Failed to fetch presets", body |-> rows]
ItemsResponse(rows) == [status |-> 200, error |-> "", body |-> rows]
CatchResponse(rows) == [status |-> 500, error |-> "Failed to fetch presets", body |-> <<>>]

RouteInit ==
    /\ request \in [searchTerm : SearchTermParams, genres : GenresParams,
                    vstTypes : VstTypesParams, presetTypes : PresetTypesParams]
    /\ getPc = "start"
    /\ whereClause = EmptyWhere
    /\ lookup = "none"
    /\ responses = <<>>

\* GET up to its await (:5-53): the parameters are read, the predicate is
\* built and findMany is called.
GetBuildsWhere ==
    /\ UNCHANGED notRoute
    /\ getPc = "start"
    /\ whereClause' = BuildWhere(request)
    /\ getPc' = "querying"
    /\ lookup' = "pending"
    /\ UNCHANGED <<request, responses>>

\* findMany resolves (:70).
FindManyResolves ==
    /\ UNCHANGED notRoute
    /\ getPc = "querying"
    /\ lookup' = "resolved"
    /\ responses' = Append(responses, ItemsResponse(FindMany(whereClause)))
    /\ getPc' = "done"
    /\ UNCHANGED <<request, whereClause>>

\* findMany rejects (:71-77).
FindManyRejects ==
    /\ UNCHANGED notRoute
    /\ getPc = "querying"
    /\ lookup' = "rejected"
    /\ responses' = Append(responses, CatchResponse(FindMany(whereClause)))
    /\ getPc' = "done"
    /\ UNCHANGED <<request, whereClause>>

RouteNext ==
    \/ GetBuildsWhere
    \/ FindManyResolves
    \/ FindManyRejects

(***************************************************************************)
(*                            Specifications                               *)
(***************************************************************************)

RouteIdle ==
    /\ request = NoRequest
    /\ getPc = "idle"
    /\ whereClause = EmptyWhere
    /\ lookup = "none"
    /\ responses = <<>>

CardSpecInit == CardInit /\ ActionsIdle /\ RouteIdle
CardSpec == CardSpecInit /\ [][CardNext]_vars

CartSpecInit == CardInit /\ ActionsInit /\ RouteIdle
CartSpec == CartSpecInit /\ [][CartNext]_vars

DeleteSpecInit == CardInit /\ ActionsIdle /\ RouteIdle
DeleteSpec == DeleteSpecInit /\ [][DeleteNext]_vars

HandlersSpecInit == CardInit /\ HandlersInit /\ RouteIdle
HandlersSpec == HandlersSpecInit /\ [][HandlersNext]_vars

RouteSpecInit == CardInit /\ ActionsIdle /\ RouteInit
RouteSpec == RouteSpecInit /\ [][RouteNext]_vars

(***************************************************************************)
(*                    Properties of PresetPackCard                         *)
(***************************************************************************)

\* An element that was acquired (new Audio) and is not yet torn down, that
\* is, not both stopped and dropped from state.
NotTornDown == {r \in Created : audios[r].status = "playing" \/ audio = r}

\* The last event was togglePlay(A), A with a preview URL, while another
\* preset B was the active preview.
SwitchRequested ==
    /\ last.op = "togglePlay" /\ HasUrl(last.preset)
    /\ last.prev.activePreset \notin {NoPreset, last.preset}

\* C1: after togglePlay(A) while another preset B is the active preview,
\* once the card has settled B's element is stopped and released, A's is the
\* only one held, and the card is Playing(A) with A's audio playing.
C1_SwitchEndsPlayingNew ==
    (SwitchRequested /\ mounted /\ Settled) =>
        /\ activePreset = last.preset /\ isPlaying
        /\ audio = last.res
        /\ audios[last.res].status = "playing"
        /\ audios[last.res].preset = last.preset
        /\ audios[last.prev.audio].status # "playing"
        /\ NotTornDown = {last.res}

\* C4: in every reachable state at most one element is acquired and not yet
\* torn down.
C4_AtMostOneResource == Cardinality(NotTornDown) <= 1

\* C4's case: a second element has just been made while another was held.
C4_Witness ==
    /\ last.op = "togglePlay" /\ last.prev.audio # 0
    /\ last.res = Len(audios) /\ last.res # last.prev.audio
    /\ audio = last.res /\ audios[audio].status = "playing"
    /\ NotTornDown = {audio}

\* The last event was `op` on the element held in state while the card was
\* Playing(id) or Paused(id).
AfterEventOnActive(op) ==
    /\ last.op = op
    /\ last.prev.audio # 0 /\ last.prev.activePreset # NoPreset
    /\ last.res = last.prev.audio

IsIdle == audio = 0 /\ activePreset = NoPreset /\ ~isPlaying

\* C5: from Playing(id) or Paused(id), each of 'ended', 'error', a rejected
\* play() and unmount leads to Idle with the element released.
C5_EventsLeadToIdle ==
    ((\E op \in {"ended", "error", "playRejected", "unmount"} : AfterEventOnActive(op))
        /\ Settled) =>
        /\ IsIdle
        /\ audios[last.res].status # "playing"

\* C6: togglePlay for the active preset flips isPlaying between Playing(id)
\* and Paused(id), pausing or resuming the very element held in state:
\* no element is made, audio and activePreset are unchanged.
C6_ToggleSameKeepsResource ==
    [][(/\ last' # last /\ last'.op = "togglePlay"
        /\ activePreset # NoPreset /\ last'.preset = activePreset)
       => /\ audio' = audio /\ audio # 0
          /\ activePreset' = activePreset
          /\ Len(audios') = Len(audios)
          /\ isPlaying' = ~isPlaying
          /\ (audios'[audio].status = "playing") = (~isPlaying)]_vars

\* C6's case: a preview was paused by a toggle and resumed by the next.
C6_Witness ==
    /\ last.op = "togglePlay" /\ last.preset = last.prev.activePreset
    /\ ~last.prev.isPlaying /\ isPlaying
    /\ audio = last.prev.audio /\ audios[audio].status = "playing"
    /\ Len(audios) = 1

\* C14: togglePlay for a preset without a preview URL changes nothing in
\* the playback state, whatever the state (Idle, Playing or Paused of another
\* preset): the handle, activePreset and isPlaying are unchanged, no element
\* is made, paused or torn down, and the informational notice is emitted.
C14_NoUrlToggleChangesNothing ==
    [][(last' # last /\ last'.op = "togglePlay" /\ ~HasUrl(last'.preset))
       => /\ audio' = audio /\ activePreset' = activePreset /\ isPlaying' = isPlaying
          /\ audios' = audios /\ effAudio' = effAudio /\ mounted' = mounted
          /\ last'.res = 0
          /\ last'.notice = "info:No preview available for this preset"]_vars

\* C14's case: the toggle came while another preset's preview was playing,
\* and that preview still plays.
C14_Witness ==
    /\ last.op = "togglePlay" /\ ~HasUrl(last.preset)
    /\ last.prev.isPlaying /\ last.prev.activePreset # NoPreset
    /\ isPlaying /\ activePreset = last.prev.activePreset
    /\ audio = last.prev.audio /\ audio # 0
    /\ audios[audio].status = "playing"

\* C19: whenever the card is settled, it reports preset p as playing
\* (isPlaying and activePreset = p) exactly when the element held in state
\* is p's and is playing, and no element made so far plays unreported.
C19_ReportsPlayingIffResourcePlays ==
    (mounted /\ Settled) =>
        /\ \A p \in Presets :
              (isPlaying /\ activePreset = p)
                <=> (audio # 0 /\ audios[audio].preset = p
                        /\ audios[audio].status = "playing")
        /\ \A r \in Created :
              audios[r].status = "playing" =>
                  r = audio /\ isPlaying /\ activePreset = audios[r].preset

(***************************************************************************)
(*                     Properties of useItemActions                        *)
(***************************************************************************)

DeleteOf(i) == ops[i].kind = "delete" /\ ops[i].contentViewMode = "UPLOADED"

\* C2: handleDelete with contentViewMode = UPLOADED navigates to
\* /dashboard/<itemType>s after a successful delete and does not navigate
\* at all when the delete fails.
C2_DeleteNavigatesOnlyOnSuccess ==
    \A i \in OpIds :
        (DeleteOf(i) /\ ops[i].pc = "done") =>
            IF ops[i].ok
            THEN \E k \in 1..Len(ops[i].pushes) :
                    ops[i].pushes[k] = <<"onSuccess", "/dashboard/", ops[i].itemType>>
            ELSE ops[i].pushes = <<>>

AddToCartOf(o) == o.kind = "addToCart"
Unresolved(o) == o.pc \in {"request", "response"}

\* Every other invocation is about another item.
OthersOnOtherItems(i) ==
    \A j \in OpIds \ {i} : ops'[j].kind # "none" => ops'[j].item # ops'[i].item

CartRefreshSettles(j) ==
    \/ ops[j].pc = "refetch" /\ "CART" \in ops[j].fetching
         /\ "CART" \notin ops'[j].fetching
    \/ ops[j].kind = "remove" /\ ops[j].from = "CART"
         /\ ops[j].ok /\ ops[j].pc = "response" /\ ops'[j].pc = "done"

C7_MoveNeverHidesItem ==
    \A i \in OpIds :
        (/\ ops[i].kind = "move" /\ ops[i].from = "WISHLIST"
         /\ ops[i].ok /\ ops[i].pc \in {"response", "refetch", "done"}
         /\ \A j \in OpIds \ {i} : ops[j].pc = "idle")
        => /\ ops[i].calls = 1
           /\ ops[i].pc = "done" => \A t \in CartTypes : ops[i].refetched[t] = 1
           /\ ops[i].item \in server["CART"] \cup server["WISHLIST"]
           /\ ops[i].item \in local["CART"] \cup local["WISHLIST"]

HandlerKinds == {"addToCart", "addToWishlist", "move", "remove", "delete"}

\* The indicator the hook returns for the handler that invocation i runs.
IndicatorOf(i) ==
    CASE ops[i].kind = "addToCart" -> IsAddingToCart(i)
      [] ops[i].kind = "addToWishlist" -> IsAddingToWishlist(i)
      [] ops[i].kind = "move" -> IsMovingToCart(i)
      [] ops[i].kind = "remove" -> IsRemoving(i)
      [] ops[i].kind = "delete" -> IsDeleting(i)
      [] OTHER -> FALSE

\* The request of invocation i has been issued and has not settled.
Outstanding(i) == ops[i].pc \in {"request", "response"}

\* C11: for each handler of the hook, its in-flight indicator is true in
\* every state between the handler issuing its request and that request
\* settling, and false when no such operation is outstanding.
C11_IndicatorTrueWhileOutstanding ==
    \A i \in OpIds :
        ops[i].kind \in HandlerKinds => (IndicatorOf(i) <=> Outstanding(i))

\* C12: no handler invocation ends by propagating an exception or a rejected
\* promise, and every failed one has raised an error notification.
C12_FailuresCaughtAndNotified ==
    \A i \in OpIds :
        ops[i].pc = "done" =>
            /\ ~ops[i].threw
            /\ ~ops[i].ok => (ops[i].toasts # <<>>
                                /\ ops[i].toasts[Len(ops[i].toasts)] = "error")

CartMutationKinds == {"addToCart", "move", "remove"}

\* C13: a cart mutation on item X is dispatched only while the per-item
\* loading flag of X is clear, so at most one cart mutation on X is
\* outstanding at a time.
C13_OneCartMutationPerItem ==
    [][\A i \in OpIds :
        (ops[i].pc = "idle" /\ ops'[i].kind \in CartMutationKinds)
            => ~Loading(ops'[i].item)]_vars

Zero == [t \in CartTypes |-> 0]
Once(ts) == [t \in CartTypes |-> IF t \in ts THEN 1 ELSE 0]

C16_AddToCartStepsInOrder ==
    \A i \in OpIds :
        LET o == ops[i]
            toast == IF o.ok THEN "success" ELSE "error"
        IN AddToCartOf(o) =>
            /\ o.calls = 1 /\ o.refetched["WISHLIST"] = 0 /\ o.invalidated = <<>>
            /\ o.pc \in {"request", "response"} =>
                  /\ o.log = <<"optimisticAddToCart", "addToCart">>
                  /\ o.fetching = {} /\ o.refetched["CART"] = 0 /\ o.toasts = <<>>
            /\ o.pc = "refetch" =>
                  /\ o.log = <<"optimisticAddToCart", "addToCart", "fetchCartItems">>
                  /\ o.fetching = {"CART"} /\ o.refetched["CART"] = 0 /\ o.toasts = <<>>
            /\ o.pc = "done" =>
                  /\ o.log = <<"optimisticAddToCart", "addToCart", "fetchCartItems", "toast">>
                  /\ o.fetching = {} /\ o.refetched["CART"] = 1 /\ o.toasts = <<toast>>

\* C16's case: one add-to-cart has completed after a failed request and
\* another after a successful one.
C16_Witness ==
    \E i, j \in OpIds :
        /\ AddToCartOf(ops[i]) /\ ops[i].pc = "done" /\ ~ops[i].ok
        /\ ops[i].toasts = <<"error">>
        /\ AddToCartOf(ops[j]) /\ ops[j].pc = "done" /\ ops[j].ok
        /\ ops[j].toasts = <<"success">>

\* C17: with add-to-cart for X and for Y in flight, when X's handler
\* completes after a failed request, its re-fetch of the whole CART has
\* left local cart state equal to the server's cart: Y's optimistic entry
\* is gone from it if the server's cart does not hold Y, although Y's
\* request is still outstanding.
C17_RevertDropsOtherOptimisticEntry ==
    [][\A i, j \in OpIds :
        (/\ AddToCartOf(ops[i]) /\ ops[i].pc # "done"
         /\ ops'[i].pc = "done" /\ ~ops'[i].ok
         /\ AddToCartOf(ops[j]) /\ ops[j].item # ops[i].item
         /\ ops[j].pc = "request" /\ ops'[j].pc = "request"
         /\ ops[j].item \notin server["CART"])
        => ops[j].item \notin local'["CART"]]_vars

\* C17's case: X's add-to-cart has failed and completed, Y's request is
\* still outstanding and Y's optimistic entry is no longer in local state.
C17_Witness ==
    \E i, j \in OpIds :
        /\ AddToCartOf(ops[i]) /\ ops[i].pc = "done" /\ ~ops[i].ok
        /\ AddToCartOf(ops[j]) /\ ops[j].pc = "request"
        /\ ops[j].item # ops[i].item
        /\ ops[j].item \notin local["CART"]

\* C18: an invocation of handleDelete causes at most one navigation.
C18_AtMostOneNavigation ==
    \A i \in OpIds : ops[i].kind = "delete" => Len(ops[i].pushes) <= 1

(***************************************************************************)
(*                   Properties of the catalog GET route                   *)
(***************************************************************************)

\* A parameter counts as supplied when it holds something besides its
\* padding: a non-blank character, or a list element.
HasOtherThan(p, pad) == p.present /\ \E i \in 1..Len(p.value) : p.value[i] # pad
Supplied ==
    [f \in {"title|description", "genreId", "vst.type", "presetType"} |->
        CASE f = "title|description" -> HasOtherThan(request.searchTerm, " ")
          [] f = "genreId" -> HasOtherThan(request.genres, ",")
          [] f = "vst.type" -> HasOtherThan(request.vstTypes, ",")
          [] f = "presetType" -> HasOtherThan(request.presetTypes, ",")]
SuppliedFields == {f \in DOMAIN Supplied : Supplied[f]}

\* The rows of a response are the whole table, newest first.
WholeCatalogNewestFirst(rows) ==
    /\ Len(rows) = Len(Catalog)
    /\ {rows[k] : k \in 1..Len(rows)} = {Catalog[k] : k \in 1..Len(Catalog)}
    /\ \A k \in 1..(Len(rows) - 1) : rows[k].createdAt > rows[k + 1].createdAt

\* C8: the predicate holds exactly one clause per supplied parameter and
\* none for the others; with none supplied it has no AND at all and the
\* lookup returns the whole catalog, newest first.
C8_OneClausePerSuppliedParameter ==
    (getPc \in {"querying", "done"}) =>
        /\ \A f \in DOMAIN Supplied :
              Cardinality({k \in 1..Len(whereClause.AND) : whereClause.AND[k].field = f})
                = IF Supplied[f] THEN 1 ELSE 0
        /\ Len(whereClause.AND) = Cardinality(SuppliedFields)
        /\ whereClause.hasAND = (SuppliedFields # {})
        /\ (SuppliedFields = {} /\ lookup = "resolved")
              => WholeCatalogNewestFirst(responses[1].body)

\* C8's case: every parameter is present and holds only padding.
C8_Witness ==
    /\ getPc = "done" /\ lookup = "resolved"
    /\ request.searchTerm = Given(<<" ">>) /\ request.genres = Given(<<",", ",">>)
    /\ request.vstTypes = Given(<<",">>) /\ request.presetTypes = Given(<<>>)
    /\ whereClause = EmptyWhere
    /\ Len(responses[1].body) = Len(Catalog)

\* The elements of a comma-separated list: its maximal non-empty comma-free
\* pieces.
Elements(p) ==
    IF ~p.present THEN {}
    ELSE LET v == p.value
         IN {SubSeq(v, i, j) : <<i, j>> \in
               {ij \in (1..Len(v)) \X (1..Len(v)) :
                   /\ ij[1] <= ij[2]
                   /\ \A k \in ij[1]..ij[2] : v[k] # ","
                   /\ ij[1] = 1 \/ v[ij[1] - 1] = ","
                   /\ ij[2] = Len(v) \/ v[ij[2] + 1] = ","}}

\* The term as sent, and without the blanks around it.
RawTerm == IF request.searchTerm.present THEN request.searchTerm.value ELSE <<>>
TrimmedTerm ==
    LET v == RawTerm
        ink == {i \in 1..Len(v) : v[i] # " "}
    IN IF ink = {} THEN <<>>
       ELSE SubSeq(v, CHOOSE i \in ink : \A j \in ink : i <= j,
                      CHOOSE i \in ink : \A j \in ink : i >= j)

MatchesTerm(row, term) ==
    \/ ContainsInsensitive(row.title, term)
    \/ row.description.present /\ ContainsInsensitive(row.description.value, term)

\* A row satisfies every supplied filter, the search term being `term`.
Satisfies(row, term) ==
    /\ Elements(request.genres) # {} => row.genreId \in Elements(request.genres)
    /\ Elements(request.vstTypes) # {} => row.vstType \in Elements(request.vstTypes)
    /\ Elements(request.presetTypes) # {} => row.presetType \in Elements(request.presetTypes)
    /\ term # <<>> => MatchesTerm(row, term)

CatalogRows == {Catalog[k] : k \in 1..Len(Catalog)}
Returned == {responses[1].body[k] : k \in 1..Len(responses[1].body)}

\* C9 as stated: the rows returned are exactly the catalog rows that satisfy
\* every supplied filter, the term being searchTerm as sent.
C9_ReturnedMatchSentTerm ==
    lookup = "resolved" => Returned = {row \in CatalogRows : Satisfies(row, RawTerm)}

\* C9, amended: the rows returned are exactly the catalog rows that satisfy
\* every supplied filter, the term being searchTerm without the blanks
\* around it (a blank searchTerm filters nothing).
C9_ReturnedMatchTrimmedTerm ==
    lookup = "resolved" => Returned = {row \in CatalogRows : Satisfies(row, TrimmedTerm)}

\* C9's case: all four filters supplied, the term padded, and a row returned.
C9_Witness ==
    /\ lookup = "resolved"
    /\ request.searchTerm = Given(<<" ", "A">>) /\ request.genres = Given(<<"g", ",", "h">>)
    /\ request.vstTypes = Given(<<"s", ",", "t">>) /\ request.presetTypes = Given(<<"b">>)
    /\ Len(responses[1].body) = 2

\* C10: a failed lookup is answered by an error object with status 500 and
\* no rows, a successful one by the rows and no error; one response per
\* request.
C10_OneResponseErrorOrRows ==
    /\ Len(responses) = IF getPc = "done" THEN 1 ELSE 0
    /\ lookup = "rejected" =>
          /\ responses[1].status = 500 /\ responses[1].error # ""
          /\ responses[1].body = <<>>
    /\ lookup = "resolved" =>
          /\ responses[1].status = 200 /\ responses[1].error = ""
          /\ responses[1].body = FindMany(whereClause)

\* C10's case: the lookup failed on a request that matches rows.
C10_Witness ==
    /\ lookup = "rejected" /\ getPc = "done"
    /\ FindMany(whereClause) # <<>>
    /\ responses = <<CatchResponse(<<>>)>>

====
